---- MODULE Spec2Model ----
(***************************************************************************)
(* A model of backend/server.py: the torrent supervisor (monitor_torrents),*)
(* the websocket fan-out and the control handlers, as coroutines of one    *)
(* asyncio event loop plus the worker thread of add_torrent_to_session.    *)
(*                                                                         *)
(* Atomicity follows the code: the statements of a coroutine between two   *)
(* awaits run without interleaving.  A step of a coroutine is therefore    *)
(* "the effect of the awaited call, then everything up to the next await". *)
(* The durable store (db.torrents) is a map from id to record; an awaited  *)
(* store call returns, or raises when the store is unavailable (storeUp).  *)
(***************************************************************************)
EXTENDS Integers, Sequences, FiniteSets, TLC

\* ---------------------------------------------------------------- bounds
MaxIds == 2         \* transfers ever created (identifiers are never reused)
MaxWs == 2          \* websocket connections ever opened
MaxTime == 3        \* readings of the clock: the monitor sleeps MaxTime-1 times
MaxPending == 1     \* control handlers suspended at a store await at one time
ProgressDen == 1    \* the engine reports progress k/ProgressDen, k in 0..ProgressDen
MaxLimit == 2       \* speed limits given to update_torrent are in 1..MaxLimit
OutageAt == 2       \* LiveSpec: the clock reading at which the store is unavailable

Ids == 1..MaxIds
Sockets == 1..MaxWs

\* completed_at: Optional[datetime] = None (line 92); clock readings are >= 1
None == 0

VARIABLES
    db,                     \* db.torrents: id -> durable record
    torrent_handles,        \* line 66: the registry, a dict in insertion order
    download_stats,         \* line 67: id -> stats of the last poll
    websocket_connections,  \* line 68: list of open websockets
    eng,                    \* the libtorrent session: id -> state of its handle
    creating,               \* id -> the upload_torrent call that owns it: its position and request
    pend,                   \* control handlers suspended at their store await
    now,                    \* datetime.utcnow()
    mpc,                    \* monitor_torrents: the await it is suspended at
    snap,                   \* monitor: entries of list(torrent_handles.items()) not yet visited
    status,                 \* monitor: status = handle.status() of the entry (line 122)
    cur,                    \* monitor: the entry whose update_one is awaited
    widx,                   \* monitor: position of the for-loop over websocket_connections
    ws,                     \* monitor: the socket whose send_text is awaited
    disconnected,           \* monitor: line 205
    msg,                    \* monitor: the text handed to the awaited send_text
    err,                    \* monitor: the exception caught at line 218
    wsState,                \* socket -> "new" | "open" | "closed" | "gone"
    pubStart,               \* history: websocket_connections when the publish began
    delivered,              \* history: socket -> text it received in this publish
    pruned,                 \* history: ids the monitor removed at line 119
    resp                    \* the HTTP reply of the handler that returned in this step

vars == <<db, torrent_handles, download_stats, websocket_connections, eng,
          creating, pend, now, mpc, snap, status, cur, widx, ws, disconnected,
          msg, err, wsState, pubStart, delivered, pruned, resp>>

\* ---------------------------------------------------------------- helpers
Range(s) == {s[k] : k \in 1..Len(s)}

Without(s, x) == SelectSeq(s, LAMBDA y : y # x)

Drop(f, x) == [y \in (DOMAIN f) \ {x} |-> f[y]]

Put(f, x, v) == [y \in (DOMAIN f) \cup {x} |-> IF y = x THEN v ELSE f[y]]

Tail2(s, k) == SubSeq(s, k, Len(s))

\* resp is an observation of the control API: the specifications that do not
\* look at replies start it at Unobserved, and there it stays
Unobserved == [op |-> "unobserved", id |-> 0, code |-> 0]

NoResp == [op |-> "none", id |-> 0, code |-> 0]

Response(op, id, code) == [op |-> op, id |-> id, code |-> code]

Reply(r) == IF resp = Unobserved THEN Unobserved ELSE r

Quiet == resp' = Reply(NoResp)

NoCur == [id |-> 0, progress |-> 0, status |-> "none"]

\* ---------------------------------------------------------------- engine
\* lt.torrent_status.state, as far as the code tells the values apart
RawStates == {"queued_for_checking", "checking_files", "downloading_metadata",
              "downloading", "finished", "seeding"}

\* what handle.status() can return: the fields monitor_torrents reads
AllReports == [is_seeding : BOOLEAN, paused : BOOLEAN, state : RawStates,
               error : BOOLEAN, progress : 0..ProgressDen]

NoReport == [is_seeding |-> FALSE, paused |-> FALSE, state |-> "downloading",
             error |-> FALSE, progress |-> 0]

\* the reports the engine gives in the specifications of the supervisor: a
\* torrent that downloads or seeds, unpaused and without error, with any
\* progress (DeriveSpec draws from AllReports)
Reports ==
    {r \in AllReports : /\ ~r.error
                        /\ ~r.paused
                        /\ r.state = IF r.is_seeding THEN "seeding" ELSE "downloading"}

\* the reports of a torrent that has nothing yet
IdleReports == {r \in Reports : ~r.is_seeding /\ r.progress = 0}

\* line 126: status.progress * 100
Percent(k) == (k * 100) \div ProgressDen

\* the derivation with the paused branch tested before the seeding branch
DeriveStatusPausedFirst(st) ==
    IF st.paused THEN "paused"
    ELSE IF st.is_seeding THEN "completed"
    ELSE IF st.state = "checking_files" THEN "checking"
    ELSE IF st.state = "downloading_metadata" THEN "downloading_metadata"
    ELSE IF st.state = "queued_for_checking" THEN "queued"
    ELSE IF st.error THEN "error"
    ELSE "downloading"

\* lines 151-164
DeriveStatus(st) ==
    IF st.is_seeding THEN "completed"
    ELSE IF st.paused THEN "paused"
    ELSE IF st.state = "checking_files" THEN "checking"
    ELSE IF st.state = "downloading_metadata" THEN "downloading_metadata"
    ELSE IF st.state = "queued_for_checking" THEN "queued"
    ELSE IF st.error THEN "error"
    ELSE "downloading"

\* line 182
MarksCompleted(st) == st.is_seeding /\ Percent(st.progress) >= 100

\* lines 125-137 and 151-164: what the monitor computes from one status()
Polled(id, st) == [id |-> id, progress |-> Percent(st.progress), status |-> DeriveStatus(st)]

\* TorrentInfo defaults (lines 86-92) as stored by insert_one (line 306)
NewRecord ==
    [status |-> "queued", progress |-> 0, completed_at |-> None,
     download_speed_limit |-> None, upload_speed_limit |-> None]

\* ---------------------------------------------------------------- monitor_torrents
RemoveAll(s, S) == SelectSeq(s, LAMBDA y : y \notin S)

Min(S) == CHOOSE x \in S : \A y \in S : x <= y

\* the variables of the websocket fan-out (lines 199-214)
pubVars == <<websocket_connections, widx, ws, disconnected, msg>>

\* lines 212-214: for ws in disconnected: websocket_connections.remove(ws);
\* list.remove raises ValueError when the socket is no longer in the list.
\* Then line 216, or the handler of line 218.
RemoveDisconnected(disc) ==
    LET gone == {j \in 1..Len(disc) : disc[j] \notin Range(websocket_connections)}
        upto == IF gone = {} THEN Len(disc) ELSE Min(gone) - 1
    IN  /\ websocket_connections' =
              RemoveAll(websocket_connections, {disc[j] : j \in 1..upto})
        /\ mpc' = IF gone = {} THEN "sleep2" ELSE "sleep5"
        /\ err' = IF gone = {} THEN "none" ELSE "ValueError"
        /\ disconnected' = disc
        /\ UNCHANGED <<widx, ws, msg>>

\* lines 206-208: the list iterator yields websocket_connections[idx] if there
\* is one, and send_text(json.dumps(update_data)) is called and awaited;
\* update_data holds a reference to download_stats, serialised at each call.
NextSend(idx, disc) ==
    IF idx <= Len(websocket_connections)
    THEN /\ mpc' = "send"
         /\ err' = "none"
         /\ widx' = idx
         /\ ws' = websocket_connections[idx]
         /\ msg' = download_stats'
         /\ disconnected' = disc
         /\ UNCHANGED websocket_connections
    ELSE RemoveDisconnected(disc)

\* lines 199-205, reached when the for-loop over the snapshot is exhausted
BeginPublish ==
    IF websocket_connections # <<>>
    THEN /\ pubStart' = Range(websocket_connections)
         /\ delivered' = << >>
         /\ NextSend(1, <<>>)
    ELSE /\ mpc' = "sleep2"
         /\ err' = "none"
         /\ pubStart' = {}
         /\ delivered' = << >>
         /\ UNCHANGED pubVars

\* line 119 left out: the invalid entries stay registered
PruneNothing(handles, dead) == handles

\* line 119, for each of the ids in dead: del torrent_handles[torrent_id]
Prune(handles, dead) == RemoveAll(handles, dead)

\* position in entries of the first entry whose handle is valid (line 117)
FirstValid(entries) ==
    LET ok == {k \in 1..Len(entries) : eng[entries[k]].valid}
    IN  IF ok = {} THEN Len(entries) + 1 ELSE Min(ok)

\* lines 116-164 from the top of the for-loop, entries being what the iterator
\* over list(torrent_handles.items()) has left.  Entries with an invalid handle
\* are deleted from the registry without an await (lines 117-120); del raises
\* KeyError when the id is no longer a key.  The first entry with a valid handle
\* is polled, its stats stored, and its update_one awaited (line 167).
ContinueLoop(entries, fresh, reports) ==
    LET k == FirstValid(entries)
        missing == {j \in 1..(k - 1) : entries[j] \notin Range(torrent_handles)}
        upto == IF missing = {} THEN k - 1 ELSE Min(missing) - 1
        dead == {entries[j] : j \in 1..upto}
    IN  /\ torrent_handles' = Prune(torrent_handles, dead)
        /\ pruned' = pruned \cup dead
        /\ IF missing # {}
           THEN /\ mpc' = "sleep5"
                /\ err' = "KeyError"
                /\ snap' = Tail2(entries, upto + 2)
                /\ status' = NoReport
                /\ cur' = NoCur
                /\ pubStart' = IF fresh THEN {} ELSE pubStart
                /\ delivered' = IF fresh THEN << >> ELSE delivered
                /\ UNCHANGED <<download_stats, pubVars>>
           ELSE IF k <= Len(entries)
           THEN \E st \in reports :
                /\ status' = st
                /\ cur' = Polled(entries[k], st)
                /\ download_stats' =
                      Put(download_stats, entries[k], [progress |-> Percent(st.progress)])
                /\ snap' = Tail2(entries, k + 1)
                /\ mpc' = "update1"
                /\ err' = "none"
                /\ pubStart' = IF fresh THEN {} ELSE pubStart
                /\ delivered' = IF fresh THEN << >> ELSE delivered
                /\ UNCHANGED pubVars
           ELSE /\ snap' = <<>>
                /\ status' = NoReport
                /\ cur' = NoCur
                /\ UNCHANGED download_stats
                /\ BeginPublish

\* what no step of the monitor touches
envVars == <<eng, creating, pend, wsState>>

\* a supervisor without the try of line 115: the exception ends the task
RaiseAndStop(e) ==
    /\ mpc' = "stopped"
    /\ err' = e
    /\ UNCHANGED <<db, torrent_handles, download_stats, snap, status, cur, pubVars,
                   pubStart, delivered, pruned, now>>

\* line 218-220: an exception leaves the for-loop and the try block
Raise(e) ==
    /\ mpc' = "sleep5"
    /\ err' = e
    /\ UNCHANGED <<db, torrent_handles, download_stats, snap, status, cur, pubVars,
                   pubStart, delivered, pruned, now>>

\* lines 216/220 -> 114-116: the sleep ends, the next tick snapshots the registry
Wake(reports) ==
    /\ mpc \in {"sleep2", "sleep5"}
    /\ now < MaxTime
    /\ now' = now + 1
    /\ ContinueLoop(torrent_handles, TRUE, reports)
    /\ Quiet
    /\ UNCHANGED <<db, envVars>>

\* Wake for runs without end: `while True` (line 114) goes on for ever, and
\* the clock readings from MaxTime on are not told apart
WakeAgain(reports) ==
    /\ mpc \in {"sleep2", "sleep5"}
    /\ now' = IF now < MaxTime THEN now + 1 ELSE now
    /\ ContinueLoop(torrent_handles, TRUE, reports)
    /\ Quiet
    /\ UNCHANGED <<db, envVars>>

\* lines 167-179: the first update_one
SetPolled(d, c) ==
    IF c.id \in DOMAIN d
    THEN [d EXCEPT ![c.id].status = c.status, ![c.id].progress = c.progress]
    ELSE d

\* lines 183-189: the second update_one
SetCompleted(d, id, t) ==
    IF id \in DOMAIN d
    THEN [d EXCEPT ![id].status = "completed", ![id].completed_at = t]
    ELSE d

\* line 167 returns (or raises); then lines 181-197 and the loop goes on
Update1Done(storeUp, reports) ==
    /\ mpc = "update1"
    /\ Quiet
    /\ UNCHANGED envVars
    /\ IF ~storeUp
       THEN Raise("StoreError")
       ELSE /\ db' = SetPolled(db, cur)
            /\ now' = now
            /\ IF MarksCompleted(status)
               THEN /\ mpc' = "update2"
                    /\ UNCHANGED <<torrent_handles, download_stats, snap, status, cur,
                                   pubVars, pubStart, delivered, pruned, err>>
               ELSE ContinueLoop(snap, FALSE, reports)

\* line 183 returns (or raises); then lines 190-197 and the loop goes on
Update2Done(storeUp, reports) ==
    /\ mpc = "update2"
    /\ Quiet
    /\ UNCHANGED envVars
    /\ IF ~storeUp
       THEN Raise("StoreError")
       ELSE /\ db' = SetCompleted(db, cur.id, now)
            /\ now' = now
            /\ ContinueLoop(snap, FALSE, reports)

\* line 208 returns or raises (line 209); then the for-loop over
\* websocket_connections goes on at the next index of the list as it now is
SendDone ==
    /\ mpc = "send"
    /\ Quiet
    /\ UNCHANGED envVars
    /\ UNCHANGED <<db, torrent_handles, download_stats, snap, status, cur, pruned,
                   now, pubStart>>
    /\ IF wsState[ws] = "open"
       THEN /\ delivered' = Put(delivered, ws, msg)
            /\ NextSend(widx + 1, disconnected)
       ELSE /\ delivered' = delivered
            /\ NextSend(widx + 1, Append(disconnected, ws))

\* what no control handler touches
monVars == <<mpc, snap, status, cur, widx, ws, disconnected, msg, err,
             pubStart, delivered, pruned, now>>

\* ---------------------------------------------------------------- websocket_endpoint
\* lines 230-231: accept, then append to the list
Connect(w) ==
    /\ wsState[w] = "new"
    /\ \A v \in Sockets : v < w => wsState[v] # "new"
    /\ wsState' = [wsState EXCEPT ![w] = "open"]
    /\ websocket_connections' = Append(websocket_connections, w)
    /\ Quiet
    /\ UNCHANGED <<db, torrent_handles, download_stats, eng, creating, pend,
                   mpc, snap, status, cur, widx, ws, disconnected, msg, err,
                   pubStart, delivered, pruned, now>>

\* the client goes away: sends to the socket fail from now on, and the pending
\* receive_text of line 234 will raise WebSocketDisconnect
ClientClose(w) ==
    /\ wsState[w] = "open"
    /\ wsState' = [wsState EXCEPT ![w] = "closed"]
    /\ Quiet
    /\ UNCHANGED <<db, torrent_handles, download_stats, websocket_connections, eng,
                   creating, pend, monVars>>

\* lines 235-236: websocket_connections.remove(websocket); when the monitor has
\* removed the socket already, remove raises and the handler ends all the same
HandlerDisconnect(w) ==
    /\ wsState[w] = "closed"
    /\ wsState' = [wsState EXCEPT ![w] = "gone"]
    /\ websocket_connections' = Without(websocket_connections, w)
    /\ Quiet
    /\ UNCHANGED <<db, torrent_handles, download_stats, eng, creating, pend,
                   mpc, snap, status, cur, widx, ws, disconnected, msg, err,
                   pubStart, delivered, pruned, now>>

\* ---------------------------------------------------------------- upload_torrent
\* lines 285-316 up to the await of run_in_executor: the extension check (400),
\* then inside the try: read, parse, a fresh uuid, insert_one; an exception
\* there becomes a 500 at line 325.  Nothing is shared before insert_one
\* returns, so its await is not a step of its own.
\* sched: the request carries a scheduled_start in the future.  The handler has
\* no such parameter (lines 279-284): the record is the TorrentInfo of lines
\* 297-303 and params (lines 309-312) holds the two limits only; the request
\* stays with the call, in creating, until the call returns.
\* line 254: the handle ses.add_torrent returns; the limits of params are None
\* (lines 257-260 do nothing), so the engine's limits are its defaults
NewHandle == [valid |-> TRUE, download_limit |-> None, upload_limit |-> None]

Attaching(sched) == IF sched THEN "attach_scheduled" ELSE "attach"

UploadReply(extOk, parseOk, storeUp) ==
    IF ~extOk THEN 400 ELSE IF ~parseOk \/ ~storeUp THEN 500 ELSE 0

upload_torrent(extOk, parseOk, storeUp, sched) ==
    /\ UNCHANGED <<torrent_handles, download_stats, websocket_connections, eng,
                   pend, wsState, monVars>>
    /\ IF UploadReply(extOk, parseOk, storeUp) # 0
       THEN /\ resp' = Reply(Response("upload", 0, UploadReply(extOk, parseOk, storeUp)))
            /\ UNCHANGED <<creating, db>>
       ELSE \E i \in Ids :
            /\ creating[i] = "fresh"
            /\ \A j \in Ids : j < i => creating[j] # "fresh"
            /\ creating' = [creating EXCEPT ![i] = Attaching(sched)]
            /\ db' = Put(db, i, NewRecord)
            /\ Quiet

\* a create that rolls back: when the attach fails the inserted record is deleted
AttachFailureRollsBack(i, accepted) ==
    /\ creating[i] \in {"attach", "attach_scheduled"}
    /\ creating' = [creating EXCEPT ![i] = "done"]
    /\ UNCHANGED <<download_stats, websocket_connections, pend, wsState, monVars>>
    /\ IF accepted
       THEN /\ eng' = Put(eng, i, NewHandle)
            /\ torrent_handles' = Append(torrent_handles, i)
            /\ resp' = Reply(Response("upload", i, 200))
            /\ db' = db
       ELSE /\ resp' = Reply(Response("upload", i, 500))
            /\ db' = Drop(db, i)
            /\ UNCHANGED <<eng, torrent_handles>>

\* lines 239-275 on the worker thread, then lines 318-325 of the handler whose
\* only effect is the response: the engine takes the torrent and the handle is
\* registered (line 269), or an exception makes the helper return False.
\* params never holds scheduled_start (lines 309-312), so line 267 never runs.
add_torrent_to_session(i, accepted) ==
    /\ creating[i] \in {"attach", "attach_scheduled"}
    /\ creating' = [creating EXCEPT ![i] = "done"]
    /\ UNCHANGED <<db, download_stats, websocket_connections, pend, wsState,
                   monVars>>
    /\ IF accepted
       THEN /\ eng' = Put(eng, i, NewHandle)
            /\ torrent_handles' = Append(torrent_handles, i)
            /\ resp' = Reply(Response("upload", i, 200))
       ELSE /\ resp' = Reply(Response("upload", i, 500))
            /\ UNCHANGED <<eng, torrent_handles>>

\* ---------------------------------------------------------------- pause, resume, delete
Call(op, id) == [op |-> op, id |-> id]

\* the handler without the check of lines 334-335: the store call is issued
\* for any id
PauseOrResumeUnchecked(op, i) ==
    /\ UNCHANGED <<db, torrent_handles, download_stats, websocket_connections, eng,
                   creating, wsState, monVars>>
    /\ Cardinality(pend) < MaxPending
    /\ pend' = pend \cup {Call(op, i)}
    /\ Quiet

\* lines 334-338 (op = "pause") and 349-353 (op = "resume"), up to the await;
\* handle.pause() and handle.resume() are fire and forget
PauseOrResume(op, i) ==
    /\ UNCHANGED <<db, torrent_handles, download_stats, websocket_connections, eng,
                   creating, wsState, monVars>>
    /\ IF i \notin Range(torrent_handles)
       THEN /\ resp' = Reply(Response(op, i, 404))
            /\ UNCHANGED pend
       ELSE /\ Cardinality(pend) < MaxPending
            /\ pend' = pend \cup {Call(op, i)}
            /\ Quiet

pause_torrent(i) == PauseOrResume("pause", i)

resume_torrent(i) == PauseOrResume("resume", i)

\* delete written like pause and resume: 404 for an id that is not registered
DeleteRegisteredOnly(i) ==
    /\ UNCHANGED <<db, websocket_connections, eng, creating, wsState, monVars>>
    /\ IF i \in Range(torrent_handles)
       THEN /\ Cardinality(pend) < MaxPending
            /\ pend' = pend \cup {Call("delete", i)}
            /\ Quiet
            /\ torrent_handles' = Without(torrent_handles, i)
            /\ download_stats' = Drop(download_stats, i)
       ELSE /\ resp' = Reply(Response("delete", i, 404))
            /\ UNCHANGED <<pend, torrent_handles, download_stats>>

\* lines 364-370, up to the await of line 372
delete_torrent(i) ==
    /\ Cardinality(pend) < MaxPending
    /\ pend' = pend \cup {Call("delete", i)}
    /\ Quiet
    /\ UNCHANGED <<db, websocket_connections, eng, creating, wsState, monVars>>
    /\ IF i \in Range(torrent_handles)
       THEN /\ torrent_handles' = Without(torrent_handles, i)
            /\ download_stats' = Drop(download_stats, i)
       ELSE UNCHANGED <<torrent_handles, download_stats>>

\* ---------------------------------------------------------------- update_torrent
\* what a request may give for a limit: nothing, or a number
LimitArgs == {None} \cup (1..MaxLimit)

\* the handler suspended at line 391 with its update_dict
LimitsCall(id, dl, ul) == [op |-> "update", id |-> id, dl |-> dl, ul |-> ul]

\* lines 383-386: the limits that are not None are set on the handle
SetHandleLimits(h, dl, ul) ==
    [h EXCEPT !.download_limit = IF dl # None THEN dl ELSE @,
              !.upload_limit = IF ul # None THEN ul ELSE @]

\* lines 389-394: $set of the fields of update_data that are not None
SetRecordLimits(r, dl, ul) ==
    [r EXCEPT !.download_speed_limit = IF dl # None THEN dl ELSE @,
              !.upload_speed_limit = IF ul # None THEN ul ELSE @]

\* an update that writes both limits as given, None included
UpdateWritesAll(i, dl, ul) ==
    /\ UNCHANGED <<db, torrent_handles, download_stats, websocket_connections,
                   creating, wsState, monVars>>
    /\ IF i \notin Range(torrent_handles)
       THEN /\ resp' = Reply(Response("update", i, 404))
            /\ UNCHANGED <<pend, eng>>
       ELSE /\ eng' = [eng EXCEPT ![i].download_limit = dl, ![i].upload_limit = ul]
            /\ Cardinality(pend) < MaxPending
            /\ pend' = pend \cup {LimitsCall(i, dl, ul)}
            /\ Quiet

\* lines 377-396 up to the await of line 391, or to the return when no field is
\* given.  The setters act on the engine's torrent: on a handle that is no
\* longer valid there is no torrent to take the limit.
update_torrent(i, dl, ul) ==
    /\ UNCHANGED <<db, torrent_handles, download_stats, websocket_connections,
                   creating, wsState, monVars>>
    /\ IF i \notin Range(torrent_handles)
       THEN /\ resp' = Reply(Response("update", i, 404))
            /\ UNCHANGED <<pend, eng>>
       ELSE /\ eng' = IF eng[i].valid
                      THEN [eng EXCEPT ![i] = SetHandleLimits(@, dl, ul)]
                      ELSE eng
            /\ IF dl = None /\ ul = None
               THEN /\ resp' = Reply(Response("update", i, 200))
                    /\ UNCHANGED pend
               ELSE /\ Cardinality(pend) < MaxPending
                    /\ pend' = pend \cup {LimitsCall(i, dl, ul)}
                    /\ Quiet

\* control calls that write the whole record anew: progress goes back to 0
StoreEffectResetsProgress(d, c) ==
    IF c.op = "delete" THEN Drop(d, c.id)
    ELSE IF c.id \notin DOMAIN d THEN d
    ELSE IF c.op = "pause" THEN [d EXCEPT ![c.id].status = "paused", ![c.id].progress = 0]
    ELSE IF c.op = "resume" THEN [d EXCEPT ![c.id].status = "downloading", ![c.id].progress = 0]
    ELSE [d EXCEPT ![c.id] = SetRecordLimits(@, c.dl, c.ul), ![c.id].progress = 0]

\* the store's effect of the awaited call of a control handler
StoreEffect(d, c) ==
    IF c.op = "delete" THEN Drop(d, c.id)
    ELSE IF c.id \notin DOMAIN d THEN d
    ELSE IF c.op = "pause" THEN [d EXCEPT ![c.id].status = "paused"]
    ELSE IF c.op = "resume" THEN [d EXCEPT ![c.id].status = "downloading"]
    ELSE [d EXCEPT ![c.id] = SetRecordLimits(@, c.dl, c.ul)]

\* lines 340-345, 355-360, 372-373: the awaited store call returns (200) or
\* raises (500)
StoreReply(c, storeUp) ==
    /\ c \in pend
    /\ pend' = pend \ {c}
    /\ UNCHANGED <<torrent_handles, download_stats, websocket_connections, eng,
                   creating, wsState, monVars>>
    /\ IF storeUp
       THEN db' = StoreEffect(db, c) /\ resp' = Reply(Response(c.op, c.id, 200))
       ELSE db' = db /\ resp' = Reply(Response(c.op, c.id, 500))

\* ---------------------------------------------------------------- environment
\* the engine drops a torrent: is_valid() of its handle is False from now on
\* (line 117); after ses.remove_torrent (line 366) this happens at a time of
\* the engine's choosing
EngineInvalidate(i) ==
    /\ i \in DOMAIN eng
    /\ eng[i].valid
    /\ eng' = [eng EXCEPT ![i].valid = FALSE]
    /\ Quiet
    /\ UNCHANGED <<db, torrent_handles, download_stats, websocket_connections,
                   creating, pend, wsState, monVars>>

\* ---------------------------------------------------------------- specification
InitRest ==
    /\ db = << >>
    /\ torrent_handles = <<>>
    /\ download_stats = << >>
    /\ websocket_connections = <<>>
    /\ eng = << >>
    /\ creating = [i \in Ids |-> "fresh"]
    /\ pend = {}
    /\ now = 1
    /\ mpc = "sleep2"
    /\ snap = <<>>
    /\ widx = 0
    /\ ws = 0
    /\ disconnected = <<>>
    /\ msg = << >>
    /\ err = "none"
    /\ wsState = [w \in Sockets |-> "new"]
    /\ pubStart = {}
    /\ delivered = << >>
    /\ pruned = {}

\* the process after startup_event (line 225): the monitor's first pass found
\* nothing registered and nobody connected, and sleeps
Init ==
    /\ InitRest
    /\ status = NoReport
    /\ cur = NoCur
    /\ resp = Unobserved

\* the supervisor; its store calls return or raise
Monitor ==
    \/ Wake(Reports)
    \/ \E up \in BOOLEAN : Update1Done(up, Reports)
    \/ \E up \in BOOLEAN : Update2Done(up, Reports)

\* the control API; its store calls return or raise
Api ==
    \/ \E e \in BOOLEAN, p \in BOOLEAN, up \in BOOLEAN : upload_torrent(e, p, up, FALSE)
    \/ \E i \in Ids, a \in BOOLEAN : add_torrent_to_session(i, a)
    \/ \E i \in Ids : pause_torrent(i)
    \/ \E i \in Ids : resume_torrent(i)
    \/ \E i \in Ids : delete_torrent(i)
    \/ \E c \in pend, up \in BOOLEAN : StoreReply(c, up)

Engine == \E i \in Ids : EngineInvalidate(i)

\* supervisor, control API and engine, no websocket client
Next == Monitor \/ Api \/ Engine

Spec == Init /\ [][Next]_vars

\* the same with the replies of the control API observed
InitApi ==
    /\ InitRest
    /\ status = NoReport
    /\ cur = NoCur
    /\ resp = NoResp

\* the supervisor over idle torrents and a store that answers it
IdleMonitor ==
    \/ Wake(IdleReports)
    \/ Update1Done(TRUE, IdleReports)

ApiNext == IdleMonitor \/ Api \/ Engine

ApiSpec == InitApi /\ [][ApiNext]_vars

\* the websocket fan-out: clients connect and go away while the supervisor
\* polls idle torrents that are created, deleted and dropped by the engine
Fanout ==
    \/ SendDone
    \/ \E w \in Sockets : Connect(w)
    \/ \E w \in Sockets : ClientClose(w)
    \/ \E w \in Sockets : HandlerDisconnect(w)

PubNext ==
    \/ IdleMonitor
    \/ Fanout
    \/ upload_torrent(TRUE, TRUE, TRUE, FALSE)
    \/ \E i \in Ids : add_torrent_to_session(i, TRUE)
    \/ \E i \in Ids : delete_torrent(i)
    \/ \E c \in pend : StoreReply(c, TRUE)
    \/ Engine

PubSpec == Init /\ [][PubNext]_vars

\* creation: every kind of upload request, scheduled or not, while the
\* supervisor polls idle torrents; deletes are the only other control calls
Create ==
    \/ \E e \in BOOLEAN, p \in BOOLEAN, up \in BOOLEAN, s \in BOOLEAN :
           upload_torrent(e, p, up, s)
    \/ \E i \in Ids, a \in BOOLEAN : add_torrent_to_session(i, a)
    \/ \E i \in Ids : delete_torrent(i)
    \/ \E c \in pend, up \in BOOLEAN : StoreReply(c, up)

CreateNext == IdleMonitor \/ Create \/ Engine

CreateSpec == InitApi /\ [][CreateNext]_vars

\* the limits: update_torrent with every choice of fields, on transfers that
\* are created and dropped by the engine, with a store that answers; the
\* supervisor, which neither reads nor writes a limit, sleeps
Limits ==
    \/ upload_torrent(TRUE, TRUE, TRUE, FALSE)
    \/ \E i \in Ids : add_torrent_to_session(i, TRUE)
    \/ \E i \in Ids, dl \in LimitArgs, ul \in LimitArgs : update_torrent(i, dl, ul)
    \/ \E c \in pend : StoreReply(c, TRUE)

LimitsNext == Limits \/ Engine

LimitsSpec == InitApi /\ [][LimitsNext]_vars

\* an engine whose progress never goes back: no poll (line 126) gives less
\* than the poll before it of the same torrent did
NonDecreasingReports ==
    \A i \in (DOMAIN download_stats) \cap (DOMAIN download_stats') :
        download_stats'[i].progress >= download_stats[i].progress

\* pause, resume and update-limits on transfers that are created and never
\* deleted
Controls ==
    \/ upload_torrent(TRUE, TRUE, TRUE, FALSE)
    \/ \E i \in Ids : add_torrent_to_session(i, TRUE)
    \/ \E i \in Ids : pause_torrent(i)
    \/ \E i \in Ids : resume_torrent(i)
    \/ \E i \in Ids : update_torrent(i, MaxLimit, None)
    \/ \E c \in pend, up \in BOOLEAN : StoreReply(c, up)

\* the supervisor, with a store that answers or fails, over such an engine
SteadyMonitor ==
    \/ Wake(Reports) /\ NonDecreasingReports
    \/ \E up \in BOOLEAN : Update1Done(up, Reports) /\ NonDecreasingReports
    \/ \E up \in BOOLEAN : Update2Done(up, Reports) /\ NonDecreasingReports

ProgNext == SteadyMonitor \/ Controls \/ Engine

ProgSpec == Init /\ [][ProgNext]_vars

\* the supervisor for ever, with a store that is unavailable for a while (the
\* clock reads OutageAt) and answers from then on; transfers are created and
\* dropped by the engine
StoreMayFail == now = OutageAt

LiveMonitor ==
    \/ WakeAgain(Reports)
    \/ \E up \in BOOLEAN : (up \/ StoreMayFail) /\ Update1Done(up, Reports)
    \/ \E up \in BOOLEAN : (up \/ StoreMayFail) /\ Update2Done(up, Reports)

LiveNext ==
    \/ LiveMonitor
    \/ upload_torrent(TRUE, TRUE, TRUE, FALSE)
    \/ \E i \in Ids : add_torrent_to_session(i, TRUE)
    \/ Engine

\* the event loop resumes the monitor task when the call it awaits (sleep,
\* update_one) has ended
LiveSpec == Init /\ [][LiveNext]_vars /\ WF_vars(LiveMonitor)

\* the status derivation alone: any report of the engine, derived once
DeriveInit ==
    /\ InitRest
    /\ status \in AllReports
    /\ cur = NoCur
    /\ resp = Unobserved

Derive ==
    /\ cur = NoCur
    /\ cur' = Polled(1, status)
    /\ UNCHANGED <<db, torrent_handles, download_stats, websocket_connections, eng,
                   creating, pend, now, mpc, snap, status, widx, ws, disconnected,
                   msg, err, wsState, pubStart, delivered, pruned, resp>>

DeriveSpec == DeriveInit /\ [][Derive]_vars

\* ---------------------------------------------------------------- properties

\* C1: completed_at is written once per transfer: once a durable record has a
\* completed_at, no later step gives it another value.
C1_CompletedAtWrittenOnce ==
    [][(\A i \in (DOMAIN db) \cap (DOMAIN db') :
          db[i].completed_at # None => db'[i].completed_at = db[i].completed_at)]_vars

\* C2: a store failure while one transfer is processed does not abort the tick:
\* when the tick has ended on a StoreError, no entry of its snapshot is left
\* unvisited.
C2_FailureDoesNotAbortTick ==
    (mpc = "sleep5" /\ err = "StoreError") => snap = <<>>

\* C3: an entry unregistered (by delete) while the tick is suspended at a store
\* await is skipped when the tick comes to it: it is not polled, no update of
\* it is issued, and no exception leaves the loop.
C3_RemovedEntryTolerated ==
    [][(mpc \in {"update1", "update2"} =>
          \A i \in Range(snap) \ Range(snap') :
              i \notin Range(torrent_handles) => (err' = "none" /\ cur'.id # i))]_vars

\* C4: every id in the registry has a durable record.
C4_RegisteredHasRecord ==
    \A i \in Range(torrent_handles) : i \in DOMAIN db

\* C5: a tick that meets a registered entry with an invalid handle unregisters
\* it, leaves its durable record as it is and goes on with the entries after
\* it; and the update_one of a polled entry that returns has written the
\* polled progress and the derived status to that entry's record.
C5_PruneLeavesRecordOtherUpdated ==
    [][( /\ \A i \in pruned' \ pruned :
              ( /\ ~eng[i].valid
                /\ i \in Range(torrent_handles)
                /\ i \notin Range(torrent_handles')
                /\ (i \in DOMAIN db) = (i \in DOMAIN db')
                /\ (i \in DOMAIN db => db'[i] = db[i])
                /\ (err' = "none" => (mpc' = "update1" \/ snap' = <<>>)) )
         /\ ( (mpc = "update1" /\ (mpc' = "update2" \/ cur' # cur) /\ cur.id \in DOMAIN db)
                 => ( /\ db'[cur.id].progress = cur.progress
                      /\ db'[cur.id].status = cur.status ) ) )]_vars

\* a tick (the first with anything registered) has pruned one transfer, whose
\* record is still as inserted, and updated another
C5_Witness ==
    /\ now = 2
    /\ \E i \in pruned, j \in Range(torrent_handles) :
          /\ i \in DOMAIN db
          /\ db[i] = NewRecord
          /\ j \in DOMAIN db
          /\ db[j].status = "completed"

\* C6: once the monitor has pruned a transfer, no text it hands to send_text,
\* in that tick or a later one, holds that transfer.
C6_PrunedNotPublished ==
    mpc = "send" => \A i \in DOMAIN msg : i \notin pruned

\* the for-loop over websocket_connections has ended
PublishEnded == pubStart # {} /\ mpc \in {"sleep2", "sleep5"}

\* C7: when a publish in which a delivery failed has ended, every socket that
\* was in the list when it began and whose delivery did not fail has received
\* a text, the same for all of them, and the sockets whose delivery failed
\* are no longer in the list.
C7_OthersReceiveFailedRemoved ==
    (PublishEnded /\ disconnected # <<>>) =>
        /\ \A w \in pubStart \ Range(disconnected) : w \in DOMAIN delivered
        /\ \A v, w \in DOMAIN delivered : delivered[v] = delivered[w]
        /\ \A w \in Range(disconnected) : w \notin Range(websocket_connections)

\* the priority order of the statuses: the first pair whose condition holds
PriorityOrder(st) ==
    << <<st.is_seeding, "completed">>,
       <<st.paused, "paused">>,
       <<st.state = "checking_files", "checking">>,
       <<st.state = "downloading_metadata", "downloading_metadata">>,
       <<st.state = "queued_for_checking", "queued">>,
       <<st.error, "error">>,
       <<TRUE, "downloading">> >>

FirstMatch(st) ==
    LET p == PriorityOrder(st)
    IN  p[Min({k \in 1..Len(p) : p[k][1]})][2]

\* C8: the status a tick derives from a report is the first match of the
\* priority order completed > paused > checking > downloading_metadata >
\* queued > error > downloading; a report with an error that is fully
\* available derives completed.
C8_StatusByPriority ==
    cur # NoCur =>
        /\ cur.status = FirstMatch(status)
        /\ (status.error /\ status.is_seeding) => cur.status = "completed"

C8_Witness ==
    /\ cur # NoCur
    /\ status.error
    /\ status.is_seeding
    /\ cur.status = "completed"

\* C9: pause or resume of an id that is not in the registry replies 404 and
\* changes neither the store nor the registry, and issues no store call.
C9_PauseUnregisteredNotFound ==
    [][(\A i \in Ids, op \in {"pause", "resume"} :
          (i \notin Range(torrent_handles) /\ PauseOrResume(op, i)) =>
              /\ resp' = Response(op, i, 404)
              /\ UNCHANGED <<db, torrent_handles, download_stats, eng, pend>>)]_vars

\* pause of an orphan (a record whose engine attach failed) has replied 404
C9_Witness ==
    \E i \in Ids :
        /\ resp = Response("pause", i, 404)
        /\ creating[i] = "done"
        /\ i \in DOMAIN db
        /\ i \notin DOMAIN eng

\* C10: delete issues delete_one whether or not the id is in the registry, and
\* never replies 404; when delete_one returns, the record is gone and the reply
\* is 200.
C10_DeleteRemovesRecord ==
    /\ [](resp.op = "delete" => resp.code # 404)
    /\ [][(\A i \in Ids :
             /\ delete_torrent(i) => Call("delete", i) \in pend'
             /\ StoreReply(Call("delete", i), TRUE) =>
                    (i \notin DOMAIN db' /\ resp' = Response("delete", i, 200)))]_vars

\* delete of an orphan (a record whose engine attach failed) has replied 200,
\* and the record is gone
C10_Witness ==
    \E i \in Ids :
        /\ resp = Response("delete", i, 200)
        /\ creating[i] = "done"
        /\ i \notin DOMAIN eng
        /\ i \notin DOMAIN db

\* an orphan: its create has returned and the engine never took it
Orphan(i) == creating[i] = "done" /\ i \notin DOMAIN eng

\* C11: a create whose attach fails replies 500, leaves the store as it is (the
\* record of the new id, if no delete has taken it, is the inserted one, status
\* queued) and registers nothing; an orphan is never registered, and no step
\* but the return of a delete_one for it removes or changes its record.
C11_AttachFailureLeavesOrphan ==
    [][(\A i \in Ids :
          /\ ( add_torrent_to_session(i, FALSE) =>
                  ( /\ resp' = Response("upload", i, 500)
                    /\ db' = db
                    /\ (i \in DOMAIN db => db[i] = NewRecord)
                    /\ i \notin Range(torrent_handles') ) )
          /\ ( Orphan(i) =>
                  ( /\ i \notin Range(torrent_handles')
                    /\ ( i \in DOMAIN db =>
                            ( \/ (i \in DOMAIN db' /\ db'[i] = db[i])
                              \/ StoreReply(Call("delete", i), TRUE) ) ) ) ))]_vars

\* an orphan whose record is still the inserted one after a tick of the
\* supervisor has persisted the poll of a registered transfer
C11_Witness ==
    \E i \in Ids, j \in Range(torrent_handles) :
        /\ Orphan(i)
        /\ i \in DOMAIN db
        /\ db[i] = NewRecord
        /\ j \in DOMAIN db
        /\ db[j].status = "downloading"

\* C12: the record that a create with a scheduled_start in the future has
\* stored has neither status queued nor status downloading while the create
\* is in flight.
C12_ScheduledStartsPaused ==
    \A i \in Ids :
        (creating[i] = "attach_scheduled" /\ i \in DOMAIN db)
            => db[i].status \notin {"queued", "downloading"}

\* C13: a create whose file has the wrong extension, or the right extension
\* and content that does not parse, replies 400 and leaves the store and the
\* registry as they are.
C13_InvalidMetadataRejected ==
    [][(\A e \in BOOLEAN, p \in BOOLEAN, up \in BOOLEAN, s \in BOOLEAN :
          ((~e \/ ~p) /\ upload_torrent(e, p, up, s)) =>
              ( /\ resp'.op = "upload"
                /\ resp'.code = 400
                /\ UNCHANGED <<db, torrent_handles>> ))]_vars

\* C14: completed is terminal, for the control calls: when the store call of a
\* pause or a resume returns for a record whose status is completed, the
\* status is still completed.  (The supervisor writes whatever it derives from
\* the engine's report, lines 151-179; what it writes after completed depends
\* on the engine alone.)
C14_CompletedIsTerminal ==
    [][(\A c \in pend :
          ( /\ c.op \in {"pause", "resume"}
            /\ StoreReply(c, TRUE)
            /\ c.id \in DOMAIN db
            /\ db[c.id].status = "completed" )
          => db'[c.id].status = "completed")]_vars

\* C15: a record whose status is completed has its completed_at set, but for
\* the moment in which the supervisor is between its two writes to that record
\* (lines 167 and 183).
C15_CompletedHasCompletedAt ==
    \A i \in DOMAIN db :
        (db[i].status = "completed" /\ ~(mpc = "update2" /\ cur.id = i))
            => db[i].completed_at # None

\* the value of a limit after an update that gave v for it
Given(v, old) == IF v # None THEN v ELSE old

\* C19: update_torrent of a registered id whose handle is valid sets on the
\* handle the limits given and no other, and leaves the other handles, the
\* records and the registry as they are; when its update_one returns, the
\* record has the limits given and every other field, and every other record,
\* as before; update_torrent of an id that is not registered replies 404 and
\* changes nothing.
C19_UpdateAppliesGivenLimits ==
    [][(\A i \in Ids, dl \in LimitArgs, ul \in LimitArgs :
          /\ ( (i \notin Range(torrent_handles) /\ update_torrent(i, dl, ul)) =>
                  ( /\ resp' = Response("update", i, 404)
                    /\ UNCHANGED <<db, eng, torrent_handles, pend>> ) )
          /\ ( (i \in Range(torrent_handles) /\ eng[i].valid /\ update_torrent(i, dl, ul)) =>
                  ( /\ eng'[i].download_limit = Given(dl, eng[i].download_limit)
                    /\ eng'[i].upload_limit = Given(ul, eng[i].upload_limit)
                    /\ eng'[i].valid
                    /\ DOMAIN eng' = DOMAIN eng
                    /\ \A j \in (DOMAIN eng) \ {i} : eng'[j] = eng[j]
                    /\ UNCHANGED <<db, torrent_handles>>
                    /\ (dl # None \/ ul # None) = (LimitsCall(i, dl, ul) \in pend')
                    /\ resp'.code # 404 ) )
          /\ ( (StoreReply(LimitsCall(i, dl, ul), TRUE) /\ i \in DOMAIN db) =>
                  ( /\ DOMAIN db' = DOMAIN db
                    /\ db'[i].download_speed_limit = Given(dl, db[i].download_speed_limit)
                    /\ db'[i].upload_speed_limit = Given(ul, db[i].upload_speed_limit)
                    /\ db'[i].status = db[i].status
                    /\ db'[i].progress = db[i].progress
                    /\ db'[i].completed_at = db[i].completed_at
                    /\ \A j \in (DOMAIN db) \ {i} : db'[j] = db[j]
                    /\ resp' = Response("update", i, 200) ) ))]_vars

\* after two updates of one transfer, the first giving only the download limit
\* and the second only the upload limit, handle and record hold both, and the
\* other transfer has none
C19_Witness ==
    \E i \in Range(torrent_handles), j \in Range(torrent_handles) :
        /\ i # j
        /\ resp = Response("update", i, 200)
        /\ eng[i].download_limit = 2 /\ eng[i].upload_limit = 1
        /\ i \in DOMAIN db
        /\ db[i].download_speed_limit = 2 /\ db[i].upload_speed_limit = 1
        /\ eng[j].download_limit = None /\ eng[j].upload_limit = None
        /\ j \in DOMAIN db
        /\ db[j].download_speed_limit = None /\ db[j].upload_speed_limit = None

\* C16: while the engine's progress of a transfer never goes back, no step
\* makes the progress in its record smaller.
C16_PersistedProgressNonDecreasing ==
    [][(\A i \in (DOMAIN db) \cap (DOMAIN db') :
          db'[i].progress >= db[i].progress)]_vars

\* in the second tick after start, a record with progress persisted that a
\* pause and an update of the limits have written to since
C16_Witness ==
    /\ now = 3
    /\ \E i \in Range(torrent_handles) :
          /\ i \in DOMAIN db
          /\ db[i].progress = 100
          /\ db[i].status = "paused"
          /\ db[i].download_speed_limit = MaxLimit

\* C17: publishing never fails: no ValueError of the removal of the failed
\* sockets (line 214) reaches the handler of line 218, and when a publish has
\* ended every socket that was in the list when it began and still is in it
\* has been sent to (the text was delivered, or the delivery failed).
C17_PublishNeverFails ==
    /\ err # "ValueError"
    /\ PublishEnded =>
          \A w \in pubStart \cap Range(websocket_connections) :
              w \in DOMAIN delivered \/ w \in Range(disconnected)

\* a delete of the registered transfer i has returned: the engine took i, the
\* registry lost it to no prune of the supervisor, its record is gone and no
\* call for it is awaiting the store
DeletedRegistered(i) ==
    /\ i \in DOMAIN eng
    /\ i \notin Range(torrent_handles)
    /\ i \notin pruned
    /\ i \notin DOMAIN db
    /\ \A c \in pend : c.id # i

\* C20: after a delete of a registered transfer has returned, the transfer has
\* no entry in download_stats, the map that is published (line 203) and summed
\* (lines 415-416).
C20_DeletedStaysGone ==
    \A i \in Ids : DeletedRegistered(i) => i \notin DOMAIN download_stats

\* the handle of i is one the engine still holds
Valid(i) == i \in DOMAIN eng /\ eng[i].valid

\* a poll of i has been written to its record
Persisted(i) == i \in DOMAIN db /\ db[i].status # "queued"

\* C18: no failure ends the supervisor: an exception that leaves a tick is
\* followed by the long sleep, the long sleep by a new tick, and, the store
\* answering again, every registered transfer is polled and its poll written
\* to its record, unless the engine drops it first.
C18_SupervisorRecovers ==
    /\ [](err # "none" => mpc = "sleep5")
    /\ (mpc = "sleep5" ~> mpc # "sleep5")
    /\ \A i \in Ids :
          (i \in Range(torrent_handles) /\ Valid(i)) ~> (Persisted(i) \/ ~Valid(i))

\* the store has failed the supervisor: the tick was left by the exception,
\* the long sleep is on, and a registered transfer is not yet persisted
C18_Witness ==
    /\ mpc = "sleep5"
    /\ err = "StoreError"
    /\ \E i \in Range(torrent_handles) : Valid(i) /\ ~Persisted(i)

====
